---- MODULE Spec2Model ----
(***************************************************************************)
(* The Qobuz provider client of music_assistant                            *)
(* (src/music_assistant/modules/musicproviders/qobuz.py) as a state        *)
(* machine: cooperative tasks (provider operations and host event          *)
(* handlers) that suspend at the await points of the code, the shared      *)
(* Throttler, the lazily created session, the read-through cache in front  *)
(* of __get_data, the paginator and the stream-format probe.               *)
(***************************************************************************)
EXTENDS Integers, Sequences, FiniteSets, TLC

(* ------------------------------ bounds -------------------------------- *)
\* concurrent tasks on the host's event loop
NumTasks == 2
\* clock granularity: ticks in one second
TicksPerSecond == 2
\* versions the remote's entity data goes through
MaxVer == 1
\* largest freshness checksum a caller supplies
MaxChecksum == 2
\* full pages the largest collection of the remote spans
MaxPages == 2
\* operations a sequential run starts
MaxOps == 2
\* entries of the longest performers string
MaxEntries == 2
\* items of the longest list the remote answers a listing or search with
MaxItems == 2
\* requests of one listing that a remote with arbitrary answers answers
MaxRequests == 3

(* -------------------------- program constants -------------------------- *)
\* Throttler(rate_limit=2, period=1)
RateLimit == 2
Period == 1
\* params["limit"] = 200; offset += 200
PageSize == 200
\* get_playlist_tracks(..., limit=100, offset=0)
DefaultLimit == 100

Tasks == 1..NumTasks
Window == Period * TicksPerSecond

\* Python's None, as a result of __get_data and as the absent session
None == [kind |-> "None"]
\* cache_checksum=None
NoChecksum == 0 - 1

VARIABLES
    pc,          \* per task: the await point the task is suspended at
    op,          \* per task: the provider operation or handler it runs
    req,         \* per task: the arguments of its current __get_data call
    res,         \* per task: the value its last __get_data call returned
    outcome,     \* per task: "none" while running, "ret" or "raise" at the end
    exc,         \* per task: the exception that ended the operation
    loc,         \* per task: the locals of the operation
    session,     \* self.__user_auth_info
    cache,       \* mass.cache: key -> [data, ck]
    throttleLog, \* Throttler._task_logs, as ages in ticks, oldest first
    sentAges,    \* history: ages of the requests dispatched in the last second
    srvVer,      \* the remote: version of its entity data
    coll,        \* the remote: the items of its paged collection, in order
    loginsOK,    \* history: login responses that carried a token (2: two or more)
    raceSeen,    \* history: a login was started while another was in flight
    budget,      \* operations a sequential run may still start
    input,       \* the call a normalizer run makes: function and arguments
    output       \* what that call returned, or the fault it ended in

vars == <<pc, op, req, res, outcome, exc, loc, session, cache, throttleLog,
          sentAges, srvVer, coll, loginsOK, raceSeen, budget, input, output>>

taskVars == <<pc, op, req, res, outcome, exc, loc>>
histVars == <<loginsOK, raceSeen>>
srvVars == <<srvVer, coll>>
\* what the steps of a running operation leave alone
envVars == <<srvVer, coll, budget, input, output>>
\* the call under normalization and its result
normVars == <<input, output>>

(* ------------------------------ requests ------------------------------ *)
NoParams == [id |-> 0, limit |-> 0 - 1, offset |-> 0 - 1, fmt |-> 0]

Request(ep, par, sign, ign, ck) ==
    [ep |-> ep, par |-> par, sign |-> sign, ign |-> ign, ck |-> ck,
     live |-> FALSE]

NoRequest == Request("", NoParams, FALSE, FALSE, NoChecksum)

NoLocals == [phase |-> ""]

(* ------------------------------ Throttler ------------------------------ *)
\* Throttler.flush: drop the entries older than the period
ThrottleFlush(log) == SelectSeq(log, LAMBDA a : a <= Window)

\* a limiter that admits one caller too many
ThrottleFree_OffByOne(log) == Len(ThrottleFlush(log)) <= RateLimit

\* Throttler.acquire leaves its wait loop
ThrottleFree(log) == Len(ThrottleFlush(log)) < RateLimit

\* Throttler.acquire: the log after the caller took its slot
ThrottleTake(log) == Append(ThrottleFlush(log), 0)

Older(log) == [i \in 1..Len(log) |-> IF log[i] > Window THEN log[i] ELSE log[i] + 1]

(* ------------------------------- cache -------------------------------- *)
\* the cache key: endpoint and parameters of the decorated call
CacheKey(r) == <<r.ep, r.par>>

\* a decorator that returns whatever is stored, whatever its checksum
CacheUsable_AnyChecksum(c, r) == ~r.ign /\ <<r.ep, r.par>> \in DOMAIN c

\* use_cache: the stored payload answers the call
CacheUsable(c, r) ==
    /\ ~r.ign
    /\ CacheKey(r) \in DOMAIN c
    /\ (r.ck = NoChecksum \/ c[CacheKey(r)].ck = r.ck)

\* use_cache: the cache after the decorated call returned result
CacheAfter(c, r, result) ==
    IF r.ign \/ result = None
    THEN c
    ELSE [k \in DOMAIN c \cup {CacheKey(r)} |->
            IF k = CacheKey(r) THEN [data |-> result, ck |-> r.ck] ELSE c[k]]

(* ------------------------------- remote ------------------------------- *)
\* what the HTTP exchange of a GET can end in
FailureKinds == {"timeout", "conn_error", "non_json", "empty", "error_field"}

Failure(k) == [kind |-> k]

\* the JSON body the remote answers an entity request with
EntityBody(r, ver) == [kind |-> "entity", ep |-> r.ep, par |-> r.par, v |-> ver]

\* the bodies user/login can answer with: the full session payload, one
\* without user_auth_token, one without the user record
LoginBodies(n) ==
    { [kind |-> "login", tok |-> n, user |-> TRUE],
      [kind |-> "login", tok |-> 0, user |-> TRUE],
      [kind |-> "login", tok |-> n, user |-> FALSE] }

\* a client without the except clause of lines 543-545
HandleResponse_NoExcept(raw) ==
    IF raw.kind \in {"timeout", "conn_error", "non_json"}
    THEN [raised |-> TRUE, value |-> None]
    ELSE IF raw.kind \in {"empty", "error_field"}
         THEN [raised |-> FALSE, value |-> None]
         ELSE [raised |-> FALSE, value |-> raw]

\* __get_data, lines 533-545: what the call returns for an exchange
HandleResponse(raw) ==
    IF raw.kind \in {"timeout", "conn_error", "non_json"}
    THEN [raised |-> FALSE, value |-> None]
    ELSE IF raw.kind \in {"empty", "error_field"}
         THEN [raised |-> FALSE, value |-> None]
         ELSE [raised |-> FALSE, value |-> raw]

(* ------------------------------ session ------------------------------- *)
\* a token request that never looks at the stored session
SessionStored_Never(s) == FALSE

\* a login call that leaves out ignore_cache=True
LoginCall_Cached ==
    [ep |-> "user/login",
     par |-> [id |-> 1, limit |-> 0 - 1, offset |-> 0 - 1, fmt |-> 0],
     sign |-> FALSE, ign |-> FALSE, ck |-> 0 - 1, live |-> FALSE]

\* __auth_token, line 472
SessionStored(s) == s # None

\* __auth_token, lines 474-475: the arguments of the login call
LoginCall ==
    Request("user/login", [NoParams EXCEPT !.id = 1], FALSE, TRUE, NoChecksum)

\* __auth_token, line 473: the stored payload has a user_auth_token
HasToken(s) == s.tok # 0

\* a login that keeps the session an earlier login stored
StoreSession_FirstWins(stored, details) ==
    IF stored # None THEN stored ELSE details

\* __auth_token, line 476: self.__user_auth_info = details
StoreSession(stored, details) == details

(* ------------------------------- tasks -------------------------------- *)
Idle(t) == pc[t] = "done"

\* an exception leaves the operation of task t and reaches the host
Raise(t, e) ==
    /\ pc' = [pc EXCEPT ![t] = "done"]
    /\ req' = [req EXCEPT ![t] = NoRequest]
    /\ outcome' = [outcome EXCEPT ![t] = "raise"]
    /\ exc' = [exc EXCEPT ![t] = e]

\* task t calls self.__get_data(...) with the arguments r
Call(t, r) ==
    /\ pc' = [pc EXCEPT ![t] = "gd_cache"]
    /\ req' = [req EXCEPT ![t] = r]

\* the requests whose dispatch waits for the response
Dispatch == sentAges' = Append(sentAges, 0)

(* --------------------------- __get_data ------------------------------- *)
\* @use_cache(7): the decorator consults the cache before the call
CacheLookup(t) ==
    /\ pc[t] = "gd_cache"
    /\ IF CacheUsable(cache, req[t])
       THEN /\ res' = [res EXCEPT ![t] = cache[CacheKey(req[t])].data]
            /\ pc' = [pc EXCEPT ![t] = "gd_ret"]
       ELSE /\ res' = res
            /\ pc' = [pc EXCEPT ![t] = "gd_auth"]
    /\ UNCHANGED <<op, req, outcome, exc, loc, session, cache, throttleLog,
                   sentAges, envVars, histVars>>

\* lines 516-532: the auth header, and for a signed request the signature
\* and the token parameter; __auth_token lines 472-475
Auth(t) ==
    /\ pc[t] = "gd_auth"
    /\ IF SessionStored(session)
       THEN /\ IF HasToken(session)
               THEN /\ pc' = [pc EXCEPT ![t] = "gd_acq"]
                    /\ UNCHANGED <<req, outcome, exc>>
               ELSE Raise(t, "KeyError:473")
            /\ UNCHANGED histVars
       ELSE /\ pc' = [pc EXCEPT ![t] = "login_acq"]
            /\ raceSeen' = (raceSeen \/ \E u \in Tasks \ {t} :
                                          pc[u] \in {"login_acq", "login_wait"})
            /\ UNCHANGED <<req, outcome, exc, loginsOK>>
    /\ UNCHANGED <<op, res, loc, session, cache, throttleLog, sentAges, envVars>>

\* line 475 -> 534-535: the login request takes its limiter slot and is sent
LoginAcquire(t) ==
    /\ pc[t] = "login_acq"
    /\ ThrottleFree(throttleLog)
    /\ throttleLog' = ThrottleTake(throttleLog)
    /\ Dispatch
    /\ pc' = [pc EXCEPT ![t] = "login_wait"]
    /\ UNCHANGED <<op, req, res, outcome, exc, loc, session, cache, envVars,
                   histVars>>

\* lines 475-478: the login request returns; lines 519-532 continue
LoginResponse(t) ==
    /\ pc[t] = "login_wait"
    /\ \E raw \in {Failure(k) : k \in FailureKinds} \cup LoginBodies(t) :
         LET details == HandleResponse(raw).value IN
         /\ session' = StoreSession(session, details)
         /\ cache' = CacheAfter(cache, LoginCall, details)
         /\ loginsOK' = IF details # None /\ HasToken(details) /\ loginsOK < 2
                        THEN loginsOK + 1 ELSE loginsOK
         /\ IF details = None
            THEN Raise(t, "TypeError:477")
            ELSE IF ~details.user
            THEN Raise(t, "KeyError:477")
            ELSE IF ~HasToken(details)
            THEN Raise(t, "KeyError:478")
            ELSE /\ pc' = [pc EXCEPT ![t] = "gd_acq"]
                 /\ UNCHANGED <<req, outcome, exc>>
    /\ UNCHANGED <<op, res, loc, throttleLog, sentAges, envVars, raceSeen>>

\* lines 534-535: the request takes its limiter slot and is sent
Acquire(t) ==
    /\ pc[t] = "gd_acq"
    /\ ThrottleFree(throttleLog)
    /\ throttleLog' = ThrottleTake(throttleLog)
    /\ Dispatch
    /\ pc' = [pc EXCEPT ![t] = "gd_wait"]
    /\ req' = [req EXCEPT ![t].live = TRUE]
    /\ UNCHANGED <<op, res, outcome, exc, loc, session, cache, envVars, histVars>>

Min(a, b) == IF a < b THEN a ELSE b

\* the items of the remote's collection a page request asks for
PageItems(c, offset, limit) == SubSeq(c, offset + 1, Min(offset + limit, Len(c)))

\* the JSON body of a page: the collection's total and the page's items, of
\* the version v of the remote's data
PageBody(r) ==
    [kind |-> "page", total |-> Len(coll),
     items |-> PageItems(coll, r.par.offset, r.par.limit), v |-> srvVer]

\* the JSON bodies of track/getFileUrl: with a url, or with an empty one
FileUrlBodies(r) ==
    { [kind |-> "fileurl", url |-> u, format_id |-> r.par.fmt] :
        u \in {"", "http://stream"} }

ListEp == "favorite/getUserFavorites"
FileUrlEp == "track/getFileUrl"

\* what the remote answers the request r with
RemoteBodies(r) ==
    IF r.ep = ListEp THEN {PageBody(r)}
    ELSE IF r.ep = FileUrlEp THEN FileUrlBodies(r)
    ELSE {EntityBody(r, srvVer)}

\* lines 535-545, then the decorator stores the result
Response(t) ==
    /\ pc[t] = "gd_wait"
    /\ \E raw \in {Failure(k) : k \in FailureKinds} \cup RemoteBodies(req[t]) :
         LET h == HandleResponse(raw) IN
         IF h.raised
         THEN /\ Raise(t, "HTTP")
              /\ UNCHANGED <<res, cache>>
         ELSE /\ res' = [res EXCEPT ![t] = h.value]
              /\ cache' = CacheAfter(cache, req[t], h.value)
              /\ pc' = [pc EXCEPT ![t] = "gd_ret"]
              /\ UNCHANGED <<req, outcome, exc>>
    /\ UNCHANGED <<op, loc, session, throttleLog, sentAges, envVars, histVars>>

\* the page bodies of a remote that answers as it likes: any number of
\* items with any total
AnyPageBodies ==
    {[kind |-> "page", total |-> n, items |-> [i \in 1..k |-> i], v |-> 0] :
        n \in 0..MaxItems, k \in 0..MaxItems}

\* lines 535-545 with such a remote: every request of a listing returns, a
\* failure or a page
AnyResponse(t) ==
    /\ pc[t] = "gd_wait"
    /\ Len(loc[t].asked) <= MaxRequests
    /\ \E raw \in {Failure(k) : k \in FailureKinds} \cup AnyPageBodies :
         LET h == HandleResponse(raw) IN
         IF h.raised
         THEN /\ Raise(t, "HTTP")
              /\ UNCHANGED <<res, cache>>
         ELSE /\ res' = [res EXCEPT ![t] = h.value]
              /\ cache' = CacheAfter(cache, req[t], h.value)
              /\ pc' = [pc EXCEPT ![t] = "gd_ret"]
              /\ UNCHANGED <<req, outcome, exc>>
    /\ UNCHANGED <<op, loc, session, throttleLog, sentAges, envVars, histVars>>

(* ------------------------ provider operations ------------------------- *)
TheId == [NoParams EXCEPT !.id = 1]

\* the __get_data calls of the single-call operations (get_artist, get_album,
\* get_track, get_playlist, the update-marker peek, a page of a listing)
GetCalls_Any == Request("playlist/get", TheId, FALSE, FALSE, NoChecksum)

\* single calls that carry a freshness checksum, and the cache-bypassing peek
CheckedCalls ==
    {Request("playlist/get", TheId, FALSE, FALSE, ck) :
        ck \in {NoChecksum} \cup (1..MaxChecksum)}
    \cup {Request("playlist/get", TheId, FALSE, TRUE, NoChecksum)}

GetCalls ==
    { Request("playlist/get", TheId, FALSE, FALSE, NoChecksum),
      Request("playlist/get", TheId, FALSE, TRUE, NoChecksum) }

StartGet(t, calls) ==
    /\ Idle(t)
    /\ \E r \in calls : Call(t, r)
    /\ op' = [op EXCEPT ![t] = "get"]
    /\ res' = [res EXCEPT ![t] = None]
    /\ outcome' = [outcome EXCEPT ![t] = "none"]
    /\ exc' = [exc EXCEPT ![t] = ""]
    /\ loc' = [loc EXCEPT ![t] = NoLocals]
    /\ UNCHANGED <<session, cache, throttleLog, sentAges, envVars, histVars>>

\* the operation hands the result of its call to the host
FinishGet(t) ==
    /\ pc[t] = "gd_ret"
    /\ op[t] = "get"
    /\ pc' = [pc EXCEPT ![t] = "done"]
    /\ outcome' = [outcome EXCEPT ![t] = "ret"]
    /\ req' = [req EXCEPT ![t] = NoRequest]
    /\ loc' = [loc EXCEPT ![t] = NoLocals]
    /\ UNCHANGED <<op, res, exc, session, cache, throttleLog,
                   sentAges, envVars, histVars>>

(* ---------------------------- get_playlist ---------------------------- *)
\* lines 155-156
PlaylistCall == Request("playlist/get", TheId, FALSE, FALSE, NoChecksum)

\* line 463: self.__user_auth_info["user"]["id"], read for the comparison
\* with the owner's id; "" when the read succeeds
UserIdRead(s) ==
    IF s = None THEN "TypeError:463"
    ELSE IF ~s.user THEN "KeyError:463"
    ELSE ""

\* lines 153-156
StartGetPlaylist(t) ==
    /\ Idle(t)
    /\ Call(t, PlaylistCall)
    /\ op' = [op EXCEPT ![t] = "get_playlist"]
    /\ res' = [res EXCEPT ![t] = None]
    /\ outcome' = [outcome EXCEPT ![t] = "none"]
    /\ exc' = [exc EXCEPT ![t] = ""]
    /\ loc' = [loc EXCEPT ![t] = NoLocals]
    /\ UNCHANGED <<session, cache, throttleLog, sentAges, envVars, histVars>>

\* lines 157, 450-468: the record, from the remote or from the cache, is
\* normalized and returned
FinishGetPlaylist(t) ==
    /\ pc[t] = "gd_ret"
    /\ op[t] = "get_playlist"
    /\ IF res[t] = None
       THEN Raise(t, "AttributeError:453")
       ELSE IF UserIdRead(session) # ""
       THEN Raise(t, UserIdRead(session))
       ELSE /\ pc' = [pc EXCEPT ![t] = "done"]
            /\ outcome' = [outcome EXCEPT ![t] = "ret"]
            /\ req' = [req EXCEPT ![t] = NoRequest]
            /\ exc' = exc
    /\ UNCHANGED <<op, res, loc, session, cache, throttleLog, sentAges, envVars,
                   histVars>>

(* -------------------------- __get_all_items --------------------------- *)
\* lines 489-491, 500-502: the call for one page
PageCall(limit, offset, ck) ==
    Request(ListEp, [TheId EXCEPT !.limit = limit, !.offset = offset],
            FALSE, FALSE, ck)

\* a probe that may be answered by the cache
ProbeCall_Cached ==
    [ep |-> "favorite/getUserFavorites",
     par |-> [id |-> 1, limit |-> 1, offset |-> 0, fmt |-> 0],
     sign |-> FALSE, ign |-> FALSE, ck |-> 0 - 1, live |-> FALSE]

\* lines 483-485: the call that reads the collection's total
ProbeCall ==
    Request(ListEp, [TheId EXCEPT !.limit = 1, !.offset = 0],
            FALSE, TRUE, NoChecksum)

\* line 482: not cache_checksum
ProbeNeeded(ck) == ck = NoChecksum \/ ck = 0

\* a partial listing that always asks for the first page
PartialCall_NoOffset(limit, offset, ck) == PageCall(limit, 0, ck)

\* lines 489-491: the one request of a partial listing
PartialCall(limit, offset, ck) == PageCall(limit, offset, ck)

\* a loop that also runs when the count has reached the total
ListContinue_Inclusive(count, total) == count <= total

\* line 499: while count < total_items
ListContinue(count, total) == count < total

\* line 505: offset += 200
NextOffset(offset) == offset + PageSize

\* lines 487-502: with the checksum known, the first page request
FirstPage(t, l, ck) ==
    LET r == IF l.limit # 0
             THEN PartialCall(l.limit, l.offset, ck)
             ELSE PageCall(PageSize, 0, ck)
    IN /\ Call(t, r)
       /\ loc' = [loc EXCEPT ![t] =
              [l EXCEPT !.phase = IF l.limit # 0 THEN "partial" ELSE "full",
                        !.asked = Append(l.asked, r)]]

\* the arguments the provider operations pass to __get_all_items
ListLimits == {0, DefaultLimit}
ListOffsets == {0, DefaultLimit}
ListChecksums == {NoChecksum, 0, MaxChecksum}

ListLocals(limit, offset, ck) ==
    [phase |-> "probe", limit |-> limit, offset |-> offset, ck |-> ck,
     given |-> ck,
     total |-> 1, count |-> 0, next |-> 0, items |-> <<>>, asked |-> <<>>,
     failed |-> FALSE]

\* lines 480-486
StartList(t) ==
    /\ Idle(t)
    /\ budget > 0
    /\ budget' = budget - 1
    /\ \E limit \in ListLimits, offset \in ListOffsets, ck \in ListChecksums :
         /\ limit = 0 => offset = 0
         /\ LET l == ListLocals(limit, offset, ck) IN
            IF ProbeNeeded(ck)
            THEN /\ Call(t, ProbeCall)
                 /\ loc' = [loc EXCEPT ![t] = [l EXCEPT !.asked = <<ProbeCall>>]]
            ELSE FirstPage(t, l, ck)
    /\ op' = [op EXCEPT ![t] = "list"]
    /\ res' = [res EXCEPT ![t] = None]
    /\ outcome' = [outcome EXCEPT ![t] = "none"]
    /\ exc' = [exc EXCEPT ![t] = ""]
    /\ UNCHANGED <<session, cache, throttleLog, sentAges, srvVars, normVars,
                   histVars>>

\* __get_all_items returns items to the operation that called it
ListDone(t, items, failed) ==
    /\ pc' = [pc EXCEPT ![t] = "done"]
    /\ req' = [req EXCEPT ![t] = NoRequest]
    /\ outcome' = [outcome EXCEPT ![t] = "ret"]
    /\ res' = [res EXCEPT ![t] = [kind |-> "items", items |-> items]]
    /\ loc' = [loc EXCEPT ![t].failed = failed, ![t].phase = "end"]
    /\ exc' = exc

\* lines 485-511: a __get_data call of the listing has returned
ListReturn(t) ==
    /\ pc[t] = "gd_ret"
    /\ op[t] = "list"
    /\ LET l == loc[t]
           r == res[t]
       IN
       IF l.phase = "probe"
       THEN IF r = None
            THEN Raise(t, "TypeError:486") /\ UNCHANGED <<res, loc>>
            ELSE /\ FirstPage(t, [l EXCEPT !.ck = r.total], r.total)
                 /\ UNCHANGED <<res, outcome, exc>>
       ELSE IF l.phase = "partial"
       THEN IF r = None
            THEN Raise(t, "TypeError:492") /\ UNCHANGED <<res, loc>>
            ELSE ListDone(t, r.items, FALSE)
       ELSE IF r # None
            THEN LET count == l.count + Len(r.items)
                     items == l.items \o r.items
                     next == NextOffset(l.next)
                 IN IF ListContinue(count, r.total)
                    THEN LET c == PageCall(PageSize, next, l.ck) IN
                         /\ Call(t, c)
                         /\ loc' = [loc EXCEPT ![t] =
                                [l EXCEPT !.total = r.total, !.count = count,
                                          !.next = next, !.items = items,
                                          !.asked = Append(l.asked, c)]]
                         /\ UNCHANGED <<res, outcome, exc>>
                    ELSE ListDone(t, items, FALSE)
            ELSE ListDone(t, l.items, TRUE)
    /\ UNCHANGED <<op, session, cache, throttleLog, sentAges, envVars, histVars>>

(* ------------------------ get_playlist_tracks ------------------------- *)
\* a peek that may be answered by the cache
PeekCall_Cached ==
    [ep |-> "playlist/get",
     par |-> [id |-> 1, limit |-> 0 - 1, offset |-> 0 - 1, fmt |-> 0],
     sign |-> FALSE, ign |-> FALSE, ck |-> 0 - 1, live |-> FALSE]

\* line 172: the call that reads the playlist's update marker
PeekCall == Request("playlist/get", TheId, FALSE, TRUE, NoChecksum)

\* the remote's updated_at of the version ver of a playlist: a positive
\* time stamp that grows with every change
Stamp(ver) == ver + 1

\* line 173: playlist_obj["updated_at"]
UpdatedAt(playlist_obj) == Stamp(playlist_obj.v)

\* lines 170-172
StartPlaylistTracks(t) ==
    /\ Idle(t)
    /\ budget > 0
    /\ budget' = budget - 1
    /\ \E limit \in ListLimits, offset \in ListOffsets :
         /\ limit = 0 => offset = 0
         /\ loc' = [loc EXCEPT ![t] =
                [ListLocals(limit, offset, NoChecksum) EXCEPT
                    !.phase = "peek", !.asked = <<PeekCall>>]]
    /\ Call(t, PeekCall)
    /\ op' = [op EXCEPT ![t] = "playlist_tracks"]
    /\ res' = [res EXCEPT ![t] = None]
    /\ outcome' = [outcome EXCEPT ![t] = "none"]
    /\ exc' = [exc EXCEPT ![t] = ""]
    /\ UNCHANGED <<session, cache, throttleLog, sentAges, srvVars, normVars,
                   histVars>>

\* lines 172-175, 480-491: the peek has returned; __get_all_items is entered
\* with the update marker as its checksum
PlaylistPeekReturn(t) ==
    /\ pc[t] = "gd_ret"
    /\ op[t] = "playlist_tracks"
    /\ IF res[t] = None
       THEN Raise(t, "TypeError:173") /\ UNCHANGED <<op, loc>>
       ELSE LET ck == UpdatedAt(res[t])
                l == [loc[t] EXCEPT !.ck = ck, !.given = ck, !.phase = "probe"]
            IN /\ IF ProbeNeeded(ck)
                  THEN /\ Call(t, ProbeCall)
                       /\ loc' = [loc EXCEPT ![t] =
                              [l EXCEPT !.asked = Append(l.asked, ProbeCall)]]
                  ELSE FirstPage(t, l, ck)
               /\ op' = [op EXCEPT ![t] = "list"]
               /\ UNCHANGED <<outcome, exc>>
    /\ UNCHANGED <<res, session, cache, throttleLog, sentAges, envVars, histVars>>

(* ------------------------- get_stream_details ------------------------- *)
\* line 258: for format_id in [27, 7, 6, 5]
Formats == <<27, 7, 6, 5>>

\* lines 261-262
FileUrlCall(f) ==
    Request(FileUrlEp, [TheId EXCEPT !.fmt = f], TRUE, TRUE, NoChecksum)

\* a probe that takes any response for an answer
HasUrl_AnyResponse(r) == r # None

\* line 263: streamdetails and streamdetails.get('url')
HasUrl(r) == r # None /\ r.url # ""

\* lines 268-275
StreamDetails(r) == [kind |-> "stream", type |-> "url", path |-> r.url, details |-> r]

StreamLocals == [phase |-> "stream", asked |-> <<>>, got |-> <<>>]

\* lines 255-262
StartStream(t) ==
    /\ Idle(t)
    /\ Call(t, FileUrlCall(Formats[1]))
    /\ loc' = [loc EXCEPT ![t] =
           [StreamLocals EXCEPT !.asked = <<FileUrlCall(Formats[1])>>]]
    /\ op' = [op EXCEPT ![t] = "stream"]
    /\ res' = [res EXCEPT ![t] = None]
    /\ outcome' = [outcome EXCEPT ![t] = "none"]
    /\ exc' = [exc EXCEPT ![t] = ""]
    /\ UNCHANGED <<session, cache, throttleLog, sentAges, envVars, histVars>>

\* lines 262-275: a track/getFileUrl call has returned
StreamReturn(t) ==
    /\ pc[t] = "gd_ret"
    /\ op[t] = "stream"
    /\ LET l == loc[t]
           r == res[t]
           got == Append(l.got, r)
           n == Len(l.asked)
       IN
       IF HasUrl(r) \/ n = Len(Formats)
       THEN /\ pc' = [pc EXCEPT ![t] = "done"]
            /\ req' = [req EXCEPT ![t] = NoRequest]
            /\ outcome' = [outcome EXCEPT ![t] = "ret"]
            /\ res' = [res EXCEPT ![t] =
                   IF r = None \/ r.url = "" THEN None ELSE StreamDetails(r)]
            /\ loc' = [loc EXCEPT ![t].got = got, ![t].phase = "end"]
       ELSE /\ Call(t, FileUrlCall(Formats[n + 1]))
            /\ loc' = [loc EXCEPT ![t].got = got,
                                  ![t].asked = Append(l.asked, FileUrlCall(Formats[n + 1]))]
            /\ UNCHANGED <<res, outcome>>
    /\ UNCHANGED <<op, exc, session, cache, throttleLog, sentAges, envVars, histVars>>

(* ----------------------------- mass_event ----------------------------- *)
\* lines 547-550: __post_data reads the undefined global QOBUZ_APP_ID before
\* it asks for the token or posts
PostData == "NameError:550"

\* lines 277-303
MassEvent(t) ==
    /\ Idle(t)
    /\ \E msg \in {"streaming_started", "streaming_ended", "other"},
          prov \in {"qobuz", "other"} :
         /\ op' = [op EXCEPT ![t] = "event"]
         /\ pc' = [pc EXCEPT ![t] = "done"]
         /\ IF msg = "other" \/ prov # "qobuz"
            THEN /\ outcome' = [outcome EXCEPT ![t] = "ret"]
                 /\ exc' = [exc EXCEPT ![t] = ""]
            ELSE /\ outcome' = [outcome EXCEPT ![t] = "raise"]
                 /\ exc' = [exc EXCEPT ![t] =
                        IF session = None THEN "TypeError:283"
                        ELSE IF ~session.user THEN "KeyError:283"
                        ELSE PostData]
    /\ req' = [req EXCEPT ![t] = NoRequest]
    /\ res' = [res EXCEPT ![t] = None]
    /\ UNCHANGED <<loc, session, cache, throttleLog, sentAges, envVars, histVars>>

(* ---------------------------- environment ----------------------------- *)
\* time passes
Tick ==
    /\ throttleLog' = Older(throttleLog)
    /\ sentAges' = SelectSeq(Older(sentAges), LAMBDA a : a <= Window)
    /\ UNCHANGED <<taskVars, session, cache, envVars, histVars>>

\* the remote's data changes
ServerChange ==
    /\ srvVer < MaxVer
    /\ srvVer' = srvVer + 1
    /\ UNCHANGED <<taskVars, session, cache, throttleLog, sentAges, coll,
                   budget, normVars, histVars>>

\* the remote's collection changes: items are added or removed, or replaced
\* with the total unchanged
CollChange ==
    /\ srvVer < MaxVer
    /\ srvVer' = srvVer + 1
    /\ \E n \in {k * PageSize + d : k \in 0..MaxPages, d \in {0, 1}} :
         coll' = [i \in 1..n |-> i]
    /\ UNCHANGED <<taskVars, session, cache, throttleLog, sentAges, budget,
                   normVars, histVars>>

\* a cache entry reaches its maximum age
CacheExpire ==
    /\ \E k \in DOMAIN cache :
         cache' = [j \in DOMAIN cache \ {k} |-> cache[j]]
    /\ UNCHANGED <<taskVars, session, throttleLog, sentAges, envVars, histVars>>

(* --------------------------- specification ---------------------------- *)
EmptyCache == [k \in {} |-> None]

\* no normalizer call is under way
NoCall == [fn |-> ""]
NotRun == [kind |-> "not run"]

Init ==
    /\ pc = [t \in Tasks |-> "done"]
    /\ op = [t \in Tasks |-> ""]
    /\ req = [t \in Tasks |-> NoRequest]
    /\ res = [t \in Tasks |-> None]
    /\ outcome = [t \in Tasks |-> "none"]
    /\ exc = [t \in Tasks |-> ""]
    /\ loc = [t \in Tasks |-> NoLocals]
    /\ session = None
    /\ cache = EmptyCache
    /\ throttleLog = <<>>
    /\ sentAges = <<>>
    /\ srvVer = 0
    /\ coll = <<>>
    /\ loginsOK = 0
    /\ raceSeen = FALSE
    /\ budget = MaxOps
    /\ input = NoCall
    /\ output = NotRun

\* concurrent operations and event handlers on the one event loop
Next ==
    \/ \E t \in Tasks : StartGet(t, GetCalls)
    \/ \E t \in Tasks : CacheLookup(t)
    \/ \E t \in Tasks : Auth(t)
    \/ \E t \in Tasks : LoginAcquire(t)
    \/ \E t \in Tasks : LoginResponse(t)
    \/ \E t \in Tasks : Acquire(t)
    \/ \E t \in Tasks : Response(t)
    \/ \E t \in Tasks : FinishGet(t)
    \/ \E t \in Tasks : MassEvent(t)
    \/ Tick

Spec == Init /\ [][Next]_vars

\* concurrent get_playlist calls and event handlers on the one event loop
NextPlaylist ==
    \/ \E t \in Tasks : StartGetPlaylist(t)
    \/ \E t \in Tasks : CacheLookup(t)
    \/ \E t \in Tasks : Auth(t)
    \/ \E t \in Tasks : LoginAcquire(t)
    \/ \E t \in Tasks : LoginResponse(t)
    \/ \E t \in Tasks : Acquire(t)
    \/ \E t \in Tasks : Response(t)
    \/ \E t \in Tasks : FinishGetPlaylist(t)
    \/ \E t \in Tasks : MassEvent(t)
    \/ Tick

SpecPlaylist == Init /\ [][NextPlaylist]_vars

\* one operation at a time: the host runs its calls one after the other
Main == CHOOSE t \in Tasks : \A u \in Tasks : t <= u

\* the sizes the remote's collection can have
Totals == {k * PageSize + d : k \in 0..MaxPages, d \in {0, 1}}

InitRemote(totals) ==
    /\ pc = [t \in Tasks |-> "done"]
    /\ op = [t \in Tasks |-> ""]
    /\ req = [t \in Tasks |-> NoRequest]
    /\ res = [t \in Tasks |-> None]
    /\ outcome = [t \in Tasks |-> "none"]
    /\ exc = [t \in Tasks |-> ""]
    /\ loc = [t \in Tasks |-> NoLocals]
    /\ session = None
    /\ cache = EmptyCache
    /\ throttleLog = <<>>
    /\ sentAges = <<>>
    /\ srvVer = 0
    /\ \E n \in totals : coll = [i \in 1..n |-> i]
    /\ loginsOK = 0
    /\ raceSeen = FALSE
    /\ budget = MaxOps
    /\ input = NoCall
    /\ output = NotRun

\* the steps of a __get_data call of the one running operation
ClientStep ==
    \/ CacheLookup(Main)
    \/ Auth(Main)
    \/ LoginAcquire(Main)
    \/ LoginResponse(Main)
    \/ Acquire(Main)
    \/ Response(Main)

\* single client calls with freshness checksums against a changing remote
NextCache ==
    \/ StartGet(Main, CheckedCalls)
    \/ FinishGet(Main)
    \/ ClientStep
    \/ Tick
    \/ ServerChange
    \/ CacheExpire

SpecCache == InitRemote({0}) /\ [][NextCache]_vars

\* a bounded number of listings, one after the other
NextList ==
    \/ StartList(Main)
    \/ ListReturn(Main)
    \/ ClientStep
    \/ Tick

SpecList == InitRemote(Totals) /\ [][NextList]_vars

\* stream-url resolutions, one after the other
NextStream ==
    \/ StartStream(Main)
    \/ StreamReturn(Main)
    \/ ClientStep
    \/ Tick

SpecStream == InitRemote({0}) /\ [][NextStream]_vars

\* listings, one after the other, of a collection that changes
NextFresh ==
    \/ StartList(Main)
    \/ ListReturn(Main)
    \/ ClientStep
    \/ Tick
    \/ CollChange

SpecFresh == InitRemote(Totals) /\ [][NextFresh]_vars

\* playlist track listings, one after the other, of a playlist that changes
NextTracks ==
    \/ StartPlaylistTracks(Main)
    \/ PlaylistPeekReturn(Main)
    \/ ListReturn(Main)
    \/ ClientStep
    \/ Tick
    \/ CollChange

SpecTracks == InitRemote(Totals) /\ [][NextTracks]_vars

\* listings, one after the other, against a remote with arbitrary answers
NextLoop ==
    \/ StartList(Main)
    \/ ListReturn(Main)
    \/ CacheLookup(Main)
    \/ Auth(Main)
    \/ LoginAcquire(Main)
    \/ LoginResponse(Main)
    \/ Acquire(Main)
    \/ AnyResponse(Main)
    \/ Tick

SpecLoop == InitRemote({0}) /\ [][NextLoop]_vars

(* ----------------------------- normalizers ----------------------------- *)
\* a key the JSON record does not have
Absent == [kind |-> "absent"]

\* an exception that ends the call
Fault(e) == [kind |-> "fault", exc |-> e]

\* Python truthiness of a JSON member read with .get: a dict, not null
Truthy(x) == x # Absent /\ x # None

\* Python truthiness of a boolean member: "true", "false", or no such key
Flags == {"true", "false", "absent"}

\* 'Various' in name
ContainsVarious(name) == name \in {"Various", "Various Artists"}

\* lines 305-327: __parse_artist
parse_artist(artist_obj) ==
    IF artist_obj = None \/ artist_obj = Absent
    THEN Fault("AttributeError:308")
    ELSE IF artist_obj.id = ""
    THEN None
    ELSE [kind |-> "artist", item_id |-> artist_obj.id, name |-> artist_obj.name]

\* an album type decided by the artist name before the product type
AlbumType_VariousFirst(product_type, name) ==
    IF product_type = "compilation" \/ ContainsVarious(name) THEN "Compilation"
    ELSE IF product_type = "single" THEN "Single"
    ELSE "Album"

\* lines 347-352
AlbumType(product_type, name) ==
    IF product_type = "single" THEN "Single"
    ELSE IF product_type = "compilation" \/ ContainsVarious(name) THEN "Compilation"
    ELSE "Album"

\* line 332 and line 378: the id/streamable/displayable gate, evaluated left
\* to right: "pass", "reject", or the KeyError of a missing flag
Gate(obj) ==
    IF obj.id = "" THEN "reject"
    ELSE IF obj.streamable = "absent" THEN "KeyError"
    ELSE IF obj.streamable = "false" THEN "reject"
    ELSE IF obj.displayable = "absent" THEN "KeyError"
    ELSE IF obj.displayable = "false" THEN "reject"
    ELSE "pass"

\* an album normalizer that skips an artistless album silently
parse_album_SkipArtistless(album_obj) ==
    IF album_obj = None \/ album_obj = Absent
    THEN Fault("AttributeError:332")
    ELSE IF Gate(album_obj) = "reject" THEN None
    ELSE IF Gate(album_obj) = "KeyError" THEN Fault("KeyError:332")
    ELSE IF album_obj.artist = Absent \/ album_obj.artist = None THEN None
    ELSE IF album_obj.artist.id = "" THEN None
    ELSE [kind |-> "album", item_id |-> album_obj.id,
          artist |-> [kind |-> "artist", item_id |-> album_obj.artist.id,
                      name |-> album_obj.artist.name],
          albumtype |-> AlbumType(album_obj.product_type, album_obj.artist.name)]

\* lines 329-373: __parse_album
parse_album(album_obj) ==
    IF album_obj = None \/ album_obj = Absent
    THEN Fault("AttributeError:332")
    ELSE IF Gate(album_obj) = "reject" THEN None
    ELSE IF Gate(album_obj) = "KeyError" THEN Fault("KeyError:332")
    ELSE IF album_obj.artist = Absent THEN Fault("KeyError:344")
    ELSE LET artist == parse_artist(album_obj.artist) IN
         IF artist.kind = "fault" THEN artist
         ELSE IF artist = None THEN Fault("Exception:346")
         ELSE [kind |-> "album", item_id |-> album_obj.id, artist |-> artist,
               albumtype |-> AlbumType(album_obj.product_type,
                                       album_obj.artist.name)]

\* a classification whose thresholds include the boundary value
Quality_Inclusive(rate, depth, format_id) ==
    IF rate >= 192 THEN "FLAC_LOSSLESS_HI_RES_4"
    ELSE IF rate >= 96 THEN "FLAC_LOSSLESS_HI_RES_3"
    ELSE IF rate >= 48 THEN "FLAC_LOSSLESS_HI_RES_2"
    ELSE IF depth >= 16 THEN "FLAC_LOSSLESS_HI_RES_1"
    ELSE IF format_id = 5 THEN "LOSSY_AAC"
    ELSE "FLAC_LOSSLESS"

\* lines 429-441: the quality tier of a track
Quality(rate, depth, format_id) ==
    IF rate > 192 THEN "FLAC_LOSSLESS_HI_RES_4"
    ELSE IF rate > 96 THEN "FLAC_LOSSLESS_HI_RES_3"
    ELSE IF rate > 48 THEN "FLAC_LOSSLESS_HI_RES_2"
    ELSE IF depth > 16 THEN "FLAC_LOSSLESS_HI_RES_1"
    ELSE IF format_id = 5 THEN "LOSSY_AAC"
    ELSE "FLAC_LOSSLESS"

\* the local variable artist of __parse_track before its first assignment
Unbound == [kind |-> "unbound"]

\* line 387: self.get_artist(...) without await, a coroutine object
Coroutine == [kind |-> "coroutine"]

\* line 401: 'artist' in role.lower()
RoleIsArtist(role) == role \in {"MainArtist", "Featured Artist"}

\* the artists a track resolved
Artists(list) == [kind |-> "artists", list |-> list]

\* lines 398-405: the loop over the entries of the performers string, from
\* entry i on, with the current value of the local variable artist
RECURSIVE PerformersLoop(_, _, _, _)
PerformersLoop(entries, i, artist, list) ==
    IF i > Len(entries) THEN Artists(list)
    ELSE IF ~entries[i].sep THEN Fault("IndexError:399")
    ELSE LET a == IF RoleIsArtist(entries[i].role)
                  THEN [kind |-> "artist", item_id |-> entries[i].name,
                        name |-> entries[i].name]
                  ELSE artist
         IN IF a = Unbound THEN Fault("UnboundLocalError:405")
            ELSE PerformersLoop(entries, i + 1, a, Append(list, a))

\* lines 384-389: the record's performer
FromPerformer(track_obj) ==
    IF Truthy(track_obj.performer) /\ "Various " \notin DOMAIN track_obj.performer
    THEN LET artist == parse_artist(track_obj.performer) IN
         IF artist = None THEN <<Coroutine>> ELSE <<artist>>
    ELSE <<>>

\* lines 390-395: the value line 393 gives the local variable artist
FromAlbum(track_obj) ==
    IF /\ Truthy(track_obj.album)
       /\ Truthy(track_obj.album.artist)
       /\ "Various " \notin DOMAIN track_obj.album.artist
    THEN parse_artist(track_obj.album.artist)
    ELSE Unbound

\* lines 384-405: track.artists, or the fault that ends the parse
TrackArtists(track_obj) ==
    IF FromPerformer(track_obj) # <<>> THEN Artists(FromPerformer(track_obj))
    ELSE LET artist == FromAlbum(track_obj) IN
         IF artist \notin {Unbound, None} THEN Artists(<<artist>>)
         ELSE IF track_obj.performers = Absent THEN Fault("KeyError:398")
         ELSE PerformersLoop(track_obj.performers.entries, 1, artist, <<>>)

\* lines 375-448: __parse_track
parse_track(track_obj) ==
    IF track_obj = None \/ track_obj = Absent
    THEN Fault("AttributeError:378")
    ELSE IF Gate(track_obj) = "reject" THEN None
    ELSE IF Gate(track_obj) = "KeyError" THEN Fault("KeyError:378")
    ELSE LET artists == TrackArtists(track_obj)
             album == IF track_obj.album = Absent THEN None
                      ELSE parse_album(track_obj.album)
         IN
         IF artists.kind = "fault" THEN artists
         ELSE IF album.kind = "fault" THEN album
         ELSE [kind |-> "track", item_id |-> track_obj.id,
               artists |-> artists.list, album |-> album,
               quality |-> Quality(track_obj.rate, track_obj.depth,
                                   track_obj.format_id)]

\* lines 450-468: __parse_playlist
parse_playlist(playlist_obj) ==
    IF playlist_obj = None \/ playlist_obj = Absent
    THEN Fault("AttributeError:453")
    ELSE IF playlist_obj.id = "" THEN None
    ELSE [kind |-> "playlist", item_id |-> playlist_obj.id]

\* the values the normalizers return for the items, in order
ParsedArtists(items) == [i \in 1..Len(items) |-> parse_artist(items[i])]
ParsedAlbums(items) == [i \in 1..Len(items) |-> parse_album(items[i])]
ParsedTracks(items) == [i \in 1..Len(items) |-> parse_track(items[i])]
ParsedPlaylists(items) == [i \in 1..Len(items) |-> parse_playlist(items[i])]

\* the exception of the first item whose parse ends in one
FirstFault(results) ==
    results[CHOOSE i \in 1..Len(results) :
                /\ results[i].kind = "fault"
                /\ \A j \in 1..(i - 1) : results[j].kind # "fault"]

HasFault(results) == \E i \in 1..Len(results) : results[i].kind = "fault"

\* for item in items: x = parse(item); if x: result.append(x)
Filtered(results) ==
    IF HasFault(results) THEN FirstFault(results)
    ELSE [kind |-> "list", items |-> SelectSeq(results, LAMBDA r : r # None)]

\* for item in items: result.append(parse(item))
Unfiltered(results) ==
    IF HasFault(results) THEN FirstFault(results)
    ELSE [kind |-> "list", items |-> results]

\* lines 96-133, 159-182: the library, album-track and playlist-track
\* listings normalize the items __get_all_items returned
listing(key, items) ==
    IF key = "artists" THEN Filtered(ParsedArtists(items))
    ELSE IF key = "albums" THEN Filtered(ParsedAlbums(items))
    ELSE IF key = "tracks" THEN Filtered(ParsedTracks(items))
    ELSE Filtered(ParsedPlaylists(items))

\* lines 184-194: get_artist_albums, from the answer of artist/get on
get_artist_albums(prov_artist_id, result) ==
    IF result = None THEN Fault("TypeError:189")
    ELSE IF \E i \in 1..Len(result.items) :
                result.items[i].artist \in {Absent, None}
    THEN Fault("TypeError:190")
    ELSE Filtered(ParsedAlbums(
                  SelectSeq(result.items,
                            LAMBDA item : item.artist.id = prov_artist_id)))

\* the tracks of the search result whose performer is the artist
ByPerformer(prov_artist_id, items) ==
    SelectSeq(items, LAMBDA item :
        /\ item.performer # Absent
        /\ item.performer.id = prov_artist_id)

\* lines 196-207: get_artist_toptracks, from the search result on
get_artist_toptracks(prov_artist_id, searchresult) ==
    IF searchresult = None THEN Fault("TypeError:203")
    ELSE IF \E i \in 1..Len(searchresult.items) :
                searchresult.items[i].performer = None
    THEN Fault("TypeError:204")
    ELSE Unfiltered(ParsedTracks(ByPerformer(prov_artist_id,
                                             searchresult.items)))

\* the media types a search can be restricted to, and the remote's name
MediaTypes == {"Artist", "Album", "Track", "Playlist"}
SearchKeys == {"artists", "albums", "tracks", "playlists"}

TypeParam(media_type) ==
    IF media_type = "Artist" THEN "artists"
    ELSE IF media_type = "Album" THEN "albums"
    ELSE IF media_type = "Track" THEN "tracks"
    ELSE "playlists"

\* a search that narrows by the first of the given media types
SearchType_First(media_types) ==
    IF Len(media_types) >= 1 THEN TypeParam(media_types[1]) ELSE ""

\* lines 63-73: params["type"], "" when the parameter is not sent
SearchType(media_types) ==
    IF Len(media_types) = 1 THEN TypeParam(media_types[1]) ELSE ""

\* lines 57-62, 75-94: the mapping search returns for the search result
search(searchresult) ==
    LET part(key, r) ==
            IF searchresult = None \/ key \notin searchresult.keys
            THEN [kind |-> "list", items |-> <<>>]
            ELSE r
        artists == part("artists", Filtered(ParsedArtists(searchresult.artists)))
        albums == part("albums", Filtered(ParsedAlbums(searchresult.albums)))
        tracks == part("tracks", Filtered(ParsedTracks(searchresult.tracks)))
        playlists == part("playlists",
                          Unfiltered(ParsedPlaylists(searchresult.playlists)))
    IN
    IF artists.kind = "fault" THEN artists
    ELSE IF albums.kind = "fault" THEN albums
    ELSE IF tracks.kind = "fault" THEN tracks
    ELSE IF playlists.kind = "fault" THEN playlists
    ELSE [kind |-> "search", artists |-> artists.items, albums |-> albums.items,
          tracks |-> tracks.items, playlists |-> playlists.items]

(* ------------------------ records of the remote ------------------------ *)
\* the sequences over S of at most n items
SeqsUpTo(S, n) == UNION {[1..k -> S] : k \in 0..n}

ArtistObjs ==
    {[id |-> i, name |-> n] : i \in {"", "a1"}, n \in {"Abba", "Various Artists"}}

ProductTypes == {"", "album", "single", "compilation"}

AlbumObjs ==
    {[id |-> i, streamable |-> s, displayable |-> d, artist |-> a,
      product_type |-> p] :
        i \in {"", "b1"}, s \in Flags, d \in Flags,
        a \in {Absent, None} \cup ArtistObjs, p \in ProductTypes}

\* the album records embedded in track records
TrackAlbums ==
    {Absent} \cup
    {al \in AlbumObjs :
        /\ al.id = "b1"
        /\ al.streamable \in {"true", "false"}
        /\ al.displayable = "true"
        /\ al.product_type = "album"
        /\ al.artist # Absent
        /\ al.artist # [id |-> "", name |-> "Various Artists"]}

\* the entries of a performers string "Name, Role - Name, Role - ...";
\* sep: the entry has the ", " that separates name and role
PerformerEntries ==
    {[name |-> "Abba", role |-> "MainArtist", sep |-> TRUE],
     [name |-> "Benny", role |-> "Composer", sep |-> TRUE],
     [name |-> "", role |-> "", sep |-> FALSE]}

PerformerStrings ==
    {Absent} \cup {[entries |-> es] :
                      es \in SeqsUpTo(PerformerEntries, MaxEntries) \ {<<>>}}

TrackPerformers ==
    {Absent, [id |-> "", name |-> "Abba"], [id |-> "a1", name |-> "Abba"],
     [id |-> "a1", name |-> "Various Artists"]}

\* the sampling rates (kHz), bit depths and format ids around the thresholds
Rates == {44, 48, 49, 96, 97, 192, 193}
Depths == {16, 17, 24}
FormatIds == {0, 5, 6}

TrackObj(i, s, d, p, al, ps, q) ==
    [id |-> i, streamable |-> s, displayable |-> d, performer |-> p,
     album |-> al, performers |-> ps,
     rate |-> q[1], depth |-> q[2], format_id |-> q[3]]

GoodAlbum ==
    [id |-> "b1", streamable |-> "true", displayable |-> "true",
     artist |-> [id |-> "a1", name |-> "Abba"], product_type |-> "album"]

GoodTrack ==
    TrackObj("t1", "true", "true", [id |-> "a1", name |-> "Abba"], GoodAlbum,
             Absent, <<44, 16, 6>>)

TrackObjs ==
    {TrackObj(i, s, d, p, al, ps, <<44, 16, 6>>) :
        i \in {"", "t1"}, s \in Flags, d \in Flags, p \in TrackPerformers,
        al \in TrackAlbums, ps \in PerformerStrings}
    \cup {[GoodTrack EXCEPT !.rate = r, !.depth = b, !.format_id = f] :
            r \in Rates, b \in Depths, f \in FormatIds}

\* the items of listings and search results: eligible and ineligible ones
ArtistItems == {[id |-> "a1", name |-> "Abba"], [id |-> "", name |-> "Abba"]}
AlbumItems == {GoodAlbum, [GoodAlbum EXCEPT !.streamable = "false"]}
TrackItems ==
    {GoodTrack, [GoodTrack EXCEPT !.displayable = "false"],
     [GoodTrack EXCEPT !.performer = [id |-> "a2", name |-> "Benny"]]}
PlaylistItems == {[id |-> "p1"], [id |-> ""]}

ItemsOf(key) ==
    IF key = "artists" THEN ArtistItems
    ELSE IF key = "albums" THEN AlbumItems
    ELSE IF key = "tracks" THEN TrackItems
    ELSE PlaylistItems

\* the bodies catalog/search answers with: one list per type when the query
\* names no type, the list of the named type only when it does
SearchKeySets(type) == SUBSET (IF type = "" THEN SearchKeys ELSE {type})

\* the lists a body with the keys ks may hold under key
SearchLists(ks, key) ==
    IF key \notin ks THEN {<<>>}
    ELSE IF key = "tracks"
    THEN SeqsUpTo({GoodTrack, [GoodTrack EXCEPT !.displayable = "false"]},
                  MaxItems)
    ELSE SeqsUpTo(ItemsOf(key), MaxItems)

\* the media-type restrictions a search is called with
MediaTypeLists ==
    {<<>>, <<"Artist", "Album">>, <<"Track", "Playlist">>}
    \cup {<<m>> : m \in MediaTypes}

(* ------------------------ normalizer operations ------------------------ *)
\* everything but the call under normalization
clientVars == <<taskVars, session, cache, throttleLog, sentAges, srvVer, coll,
                budget, histVars>>

\* __parse_album is called on a record and returns
ParseAlbum ==
    /\ input.fn = "parse_album"
    /\ output = NotRun
    /\ output' = parse_album(input.arg)
    /\ UNCHANGED <<input, clientVars>>

\* __parse_track is called on a record and returns
ParseTrack ==
    /\ input.fn = "parse_track"
    /\ output = NotRun
    /\ output' = parse_track(input.arg)
    /\ UNCHANGED <<input, clientVars>>

\* a library, album-track or playlist-track listing normalizes its items
Listing ==
    /\ input.fn = "listing"
    /\ output = NotRun
    /\ output' = listing(input.key, input.items)
    /\ UNCHANGED <<input, clientVars>>

ArtistAlbums ==
    /\ input.fn = "artist_albums"
    /\ output = NotRun
    /\ output' = get_artist_albums(input.id, input.result)
    /\ UNCHANGED <<input, clientVars>>

TopTracks ==
    /\ input.fn = "toptracks"
    /\ output = NotRun
    /\ output' = get_artist_toptracks(input.id, input.searchresult)
    /\ UNCHANGED <<input, clientVars>>

\* lines 55-94: the request goes out with the type parameter, the remote
\* answers, the answer is normalized
Search ==
    /\ input.fn = "search"
    /\ output = NotRun
    /\ \/ output' = [kind |-> "searched",
                     type |-> SearchType(input.media_types),
                     searchresult |-> None,
                     result |-> search(None)]
       \/ \E ks \in SearchKeySets(SearchType(input.media_types)) :
          \E ar \in SearchLists(ks, "artists") :
          \E al \in SearchLists(ks, "albums") :
          \E tr \in SearchLists(ks, "tracks") :
          \E pl \in SearchLists(ks, "playlists") :
            LET body == [keys |-> ks, artists |-> ar, albums |-> al,
                         tracks |-> tr, playlists |-> pl]
            IN  output' = [kind |-> "searched",
                           type |-> SearchType(input.media_types),
                           searchresult |-> body,
                           result |-> search(body)]
    /\ UNCHANGED <<input, clientVars>>

(* ------------------------------- signing ------------------------------- *)
\* the parameters of a call, in the order the caller's dict holds them:
\* <<key, value>> pairs; lexicographic rank of the keys
KeyRank(key) ==
    IF key = "format_id" THEN 1
    ELSE IF key = "intent" THEN 2
    ELSE IF key = "track_id" THEN 3
    ELSE 4

\* keys.sort(): insertion of key k into the sorted sequence s
RECURSIVE SortedInsert(_, _)
SortedInsert(s, k) ==
    IF s = <<>> THEN <<k>>
    ELSE IF KeyRank(k) <= KeyRank(Head(s)) THEN <<k>> \o s
    ELSE <<Head(s)>> \o SortedInsert(Tail(s), k)

\* a signer that takes the keys in the order of the dict
SortKeys_DictOrder(keys) == keys

\* lines 522-523: keys = list(params.keys()); keys.sort()
RECURSIVE SortKeys(_)
SortKeys(keys) ==
    IF keys = <<>> THEN <<>>
    ELSE SortedInsert(SortKeys(Tail(keys)), Head(keys))

\* params[key]
ValueOf(params, key) ==
    params[CHOOSE i \in 1..Len(params) : params[i][1] = key][2]

\* "".join(endpoint.split('/')): the endpoint's segments, one after the other
Segments(endpoint) ==
    IF endpoint = "track/getFileUrl" THEN <<"track", "getFileUrl">>
    ELSE <<endpoint>>

\* lines 524-525: key and value of every parameter, in the order of keys
RECURSIVE KeyValues(_, _)
KeyValues(params, keys) ==
    IF keys = <<>> THEN <<>>
    ELSE <<Head(keys), ValueOf(params, Head(keys))>>
         \o KeyValues(params, Tail(keys))

\* hashlib.md5(...).hexdigest(): a digest that stands for what it was made of
MD5(data) == [md5 |-> data]

\* get_app_var(0), get_app_var(1)
AppId == "app_id_0"
AppSecret == "app_secret_1"

\* lines 521-528: request_sig
Signature(endpoint, params, request_ts) ==
    MD5(Segments(endpoint)
        \o KeyValues(params, SortKeys([i \in 1..Len(params) |-> params[i][1]]))
        \o <<request_ts, AppSecret>>)

\* lines 520-532: the parameters the request goes out with
SignedParams(endpoint, params, sign_request, request_ts, token) ==
    IF sign_request
    THEN [sent |-> params,
          request_ts |-> request_ts,
          request_sig |-> Signature(endpoint, params, request_ts),
          app_id |-> AppId,
          user_auth_token |-> token]
    ELSE [sent |-> params]

\* the orders the dict of a track/getFileUrl call can hold its parameters in
FileUrlParams ==
    LET pairs(f) == {<<"format_id", f>>, <<"track_id", "1">>,
                     <<"intent", "stream">>}
    IN UNION {{p \in [1..3 -> pairs(f)] :
                   \A i, j \in 1..3 : i # j => p[i] # p[j]} :
              f \in {"27", "5"}}

\* __get_data, lines 516-532, for a call with the token in hand
SignRequest ==
    /\ input.fn = "get_data"
    /\ output = NotRun
    /\ output' = [kind |-> "request",
                  params |-> SignedParams(input.endpoint, input.params,
                                          input.sign_request, input.request_ts,
                                          "token")]
    /\ UNCHANGED <<input, clientVars>>

(* ----------------------- remove_playlist_tracks ------------------------ *)
\* an identifier as JSON and Python hold it: a number or a string of digits
Id(type, digits) == [type |-> type, digits |-> digits]

\* the JSON types the remote may give its identifiers
IdTypes == {"int", "str"}

\* the tracks of a playlist as playlist/get lists them: the track's id and
\* the id of its membership in the playlist
MemberObjs(type) ==
    {[id |-> Id(type, i), playlist_track_id |-> Id(type, m)] :
        i \in {"1", "2"}, m \in {"7", "8"}}

\* the provider track ids the host passes: strings (line 241 joins them)
ProvTrackIds == {Id("str", "1"), Id("str", "2")}

\* line 250: track['id'] in prov_track_ids, with Python's == on the elements
InIds(id, prov_track_ids) ==
    \E i \in 1..Len(prov_track_ids) : prov_track_ids[i] = id

\* line 252: ",".join(ids), defined for strings only
Join(ids) ==
    IF \E i \in 1..Len(ids) : ids[i].type # "str"
    THEN Fault("TypeError:252")
    ELSE [kind |-> "str", parts |-> [i \in 1..Len(ids) |-> ids[i].digits]]

\* lines 245-253, with the members __get_all_items returned
remove_playlist_tracks(tracks, prov_track_ids) ==
    LET hits == SelectSeq(tracks, LAMBDA track : InIds(track.id, prov_track_ids))
        playlist_track_ids == [i \in 1..Len(hits) |-> hits[i].playlist_track_id]
        joined == Join(playlist_track_ids)
    IN  IF joined.kind = "fault" THEN joined
        ELSE [kind |-> "get_data", endpoint |-> "playlist/deleteTracks",
              track_ids |-> joined]

RemovePlaylistTracks ==
    /\ input.fn = "remove_playlist_tracks"
    /\ output = NotRun
    /\ output' = remove_playlist_tracks(input.tracks, input.prov_track_ids)
    /\ UNCHANGED <<input, clientVars>>

InitNorm ==
    /\ pc = [t \in Tasks |-> "done"]
    /\ op = [t \in Tasks |-> ""]
    /\ req = [t \in Tasks |-> NoRequest]
    /\ res = [t \in Tasks |-> None]
    /\ outcome = [t \in Tasks |-> "none"]
    /\ exc = [t \in Tasks |-> ""]
    /\ loc = [t \in Tasks |-> NoLocals]
    /\ session = None
    /\ cache = EmptyCache
    /\ throttleLog = <<>>
    /\ sentAges = <<>>
    /\ srvVer = 0
    /\ coll = <<>>
    /\ loginsOK = 0
    /\ raceSeen = FALSE
    /\ budget = MaxOps
    /\ output = NotRun
    /\ \/ \E al \in AlbumObjs : input = [fn |-> "parse_album", arg |-> al]
       \/ \E tr \in TrackObjs : input = [fn |-> "parse_track", arg |-> tr]
       \/ \E m \in MediaTypeLists : input = [fn |-> "search", media_types |-> m]
       \/ \E k \in SearchKeys : \E items \in SeqsUpTo(ItemsOf(k), MaxItems) :
             input = [fn |-> "listing", key |-> k, items |-> items]
       \/ \E sr \in {None} \cup {[items |-> s] : s \in SeqsUpTo(TrackItems, MaxItems)} :
             input = [fn |-> "toptracks", id |-> "a1", searchresult |-> sr]
       \/ \E r \in {None} \cup {[items |-> s] : s \in SeqsUpTo(AlbumItems \cup
                     {[GoodAlbum EXCEPT !.artist = [id |-> "a2", name |-> "Benny"]]},
                     MaxItems)} :
             input = [fn |-> "artist_albums", id |-> "a1", result |-> r]
       \/ \E type \in IdTypes :
          \E tracks \in SeqsUpTo(MemberObjs(type), MaxItems) :
          \E ids \in SeqsUpTo(ProvTrackIds, MaxItems) \ {<<>>} :
             input = [fn |-> "remove_playlist_tracks", tracks |-> tracks,
                      prov_track_ids |-> ids]
       \/ \E ps \in FileUrlParams, sg \in BOOLEAN, ts \in {"1.5", "2.5"} :
             input = [fn |-> "get_data", endpoint |-> "track/getFileUrl",
                      params |-> ps, sign_request |-> sg, request_ts |-> ts]

NextNorm ==
    \/ ParseAlbum
    \/ ParseTrack
    \/ Listing
    \/ ArtistAlbums
    \/ TopTracks
    \/ Search
    \/ SignRequest
    \/ RemovePlaylistTracks

\* normalizer calls on the records the remote can deliver
SpecNorm == InitNorm /\ [][NextNorm]_vars

(* ------------------------------ claims -------------------------------- *)

\* C1: every request is dispatched under a slot of the one shared limiter,
\* so at most RateLimit requests have been dispatched within any closed
\* window of one period, whatever the interleaving of operations and
\* event handlers.
C1_RateBound == Len(sentAges) <= RateLimit

\* the limiter is full and a caller is suspended in front of it
C1_Witness ==
    /\ Len(sentAges) = RateLimit
    /\ ~ThrottleFree(throttleLog)
    /\ \E t \in Tasks : pc[t] \in {"gd_acq", "login_acq"}

AuthErrors == {"KeyError:473", "TypeError:477", "KeyError:477", "KeyError:478"}

\* C2 as stated: a call to the client never raises to its caller, whatever
\* the outcome of its own request and of the login request it triggers.
C2_NeverRaises == \A t \in Tasks : op[t] = "get" => outcome[t] # "raise"

\* C2 amended: __get_data returns the decoded payload or None for every
\* outcome of its own request; it raises to its caller only when the token
\* request it makes fails (login returned None, or a payload without the
\* user record or without the token).
C2_RaisesOnlyFromAuth ==
    \A t \in Tasks : op[t] = "get" =>
        /\ outcome[t] = "raise" => exc[t] \in AuthErrors
        /\ outcome[t] = "ret" =>
              res[t] \in {None, EntityBody(GetCalls_Any, srvVer)}

\* a call whose own request failed has returned None to its caller
C2_Witness ==
    \E t \in Tasks :
        op[t] = "get" /\ outcome[t] = "ret" /\ res[t] = None /\ SessionStored(session)

\* C3: once a login has succeeded and is stored, a token request returns the
\* stored token and starts no login; without concurrent first-time callers
\* at most one login request ever succeeds.
C3_OneLogin ==
    /\ [](~raceSeen => loginsOK <= 1)
    /\ [][\A t \in Tasks :
            (pc[t] = "gd_auth" /\ pc'[t] = "login_acq") => session = None]_vars

\* after the one successful login two calls are past their token request
C3_Witness ==
    /\ loginsOK = 1
    /\ ~raceSeen
    /\ SessionStored(session)
    /\ \A t \in Tasks : pc[t] \in {"gd_acq", "gd_wait"}

\* C4: a login that returns no token stores no session, so the next
\* operation logs in again.
C4_NoSessionWithoutToken == SessionStored(session) => HasToken(session)

\* C5: a cached get whose checksum equals the stored one, or that carries no
\* checksum, returns the stored payload and dispatches nothing; one whose
\* checksum differs goes to the remote and, on success, replaces the stored
\* payload and checksum.
C5_CachedGet ==
    [][\A t \in Tasks :
        LET k == <<req[t].ep, req[t].par>> IN
        /\ (pc[t] = "gd_cache" /\ pc'[t] # "gd_cache" /\ ~req[t].ign) =>
              IF k \in DOMAIN cache
                 /\ (req[t].ck = NoChecksum \/ cache[k].ck = req[t].ck)
              THEN /\ pc'[t] = "gd_ret"
                   /\ res'[t] = cache[k].data
                   /\ sentAges' = sentAges
                   /\ cache' = cache
              ELSE pc'[t] = "gd_auth"
        /\ (pc[t] = "gd_wait" /\ pc'[t] = "gd_ret" /\ ~req[t].ign) =>
              /\ req[t].live
              /\ IF res'[t] # None
                 THEN /\ k \in DOMAIN cache'
                      /\ cache'[k] = [data |-> res'[t], ck |-> req[t].ck]
                 ELSE cache' = cache
      ]_vars

\* a get with the stored checksum has returned the earlier payload without a
\* request, although the remote has changed since
C5_Witness ==
    \E t \in Tasks :
        /\ pc[t] = "gd_ret"
        /\ ~req[t].ign
        /\ ~req[t].live
        /\ req[t].ck # NoChecksum
        /\ res[t] # None
        /\ res[t].v # srvVer

\* C6: a get with ignore_cache never returns a stored payload and never
\* changes the cache; what it returns is the result of its own live request.
\* The login request is such a get.
C6_IgnoreCache ==
    [][\A t \in Tasks :
        /\ (pc'[t] # pc[t] /\ pc[t] \in {"login_acq", "login_wait"}) =>
              cache' = cache
        /\ (pc'[t] # pc[t] /\ req[t].ign
              /\ pc[t] \in {"gd_cache", "gd_auth", "gd_acq", "gd_wait"}) =>
              /\ cache' = cache
              /\ pc[t] = "gd_cache" => pc'[t] = "gd_auth"
              /\ pc'[t] = "gd_ret" =>
                    /\ pc[t] = "gd_wait"
                    /\ res'[t] \in {None} \cup RemoteBodies(req[t])
      ]_vars

\* a cache-bypassing get has returned the live payload while an older one is
\* stored under its key
C6_Witness ==
    \E t \in Tasks :
        /\ pc[t] = "gd_ret"
        /\ req[t].ign
        /\ res[t] # None
        /\ <<req[t].ep, req[t].par>> \in DOMAIN cache
        /\ cache[<<req[t].ep, req[t].par>>].data # res[t]

\* page requests a full listing of n items needs
PagesOf(n) == IF n = 0 THEN 1 ELSE (n + PageSize - 1) \div PageSize

\* C7: with a stable total and no failed page a full listing ends after
\* finitely many page requests and returns exactly the remote's items, each
\* once and in the remote's order.
C7_FullListing ==
    \A t \in Tasks :
        (op[t] = "list" /\ loc[t].limit = 0) =>
            /\ Len(loc[t].asked) <= 1 + PagesOf(Len(coll))
            /\ (loc[t].phase = "end" /\ ~loc[t].failed) => res[t].items = coll

\* a full listing has returned a collection of exactly two full pages
C7_Witness ==
    \E t \in Tasks :
        /\ op[t] = "list"
        /\ loc[t].limit = 0
        /\ loc[t].phase = "end"
        /\ ~loc[t].failed
        /\ Len(res[t].items) = 2 * PageSize

\* C8: a full listing does not raise when one of its requests returns None,
\* the first one included.
C8_NoRaiseOnFailure ==
    \A t \in Tasks :
        (op[t] = "list" /\ loc[t].limit = 0) => exc[t] # "TypeError:486"

\* C9 as stated: a partial listing issues exactly one request, carrying the
\* given limit, offset and checksum, and returns that page's items.
C9_OneRequest ==
    \A t \in Tasks :
        (op[t] = "list" /\ loc[t].limit # 0 /\ loc[t].phase = "end") =>
            /\ loc[t].asked =
                  << [ep |-> ListEp,
                      par |-> [id |-> 1, limit |-> loc[t].limit,
                               offset |-> loc[t].offset, fmt |-> 0],
                      sign |-> FALSE, ign |-> FALSE, ck |-> loc[t].given,
                      live |-> FALSE] >>
            /\ res[t].items = PageItems(coll, loc[t].offset, loc[t].limit)

\* the one page request of a partial listing, with the checksum it carries
C9_Page(l, ck) ==
    [ep |-> ListEp,
     par |-> [id |-> 1, limit |-> l.limit, offset |-> l.offset, fmt |-> 0],
     sign |-> FALSE, ign |-> FALSE, ck |-> ck, live |-> FALSE]

\* C9 amended: a partial listing called with a checksum issues exactly one
\* request, carrying the given limit, offset and checksum; called without
\* one (None or 0) it first issues the cache-bypassing probe (limit 1,
\* offset 0) and the page request carries the total the probe reported. It
\* returns the items of that one page and issues no further request.
C9_PartialListing ==
    \A t \in Tasks :
        (op[t] = "list" /\ loc[t].limit # 0) =>
            LET l == loc[t] IN
            /\ l.phase \in {"partial", "end"} =>
                  l.asked = IF l.given = NoChecksum \/ l.given = 0
                            THEN << [ep |-> ListEp,
                                     par |-> [id |-> 1, limit |-> 1,
                                              offset |-> 0, fmt |-> 0],
                                     sign |-> FALSE, ign |-> TRUE,
                                     ck |-> NoChecksum, live |-> FALSE],
                                    C9_Page(l, Len(coll)) >>
                            ELSE << C9_Page(l, l.given) >>
            /\ l.phase = "probe" => Len(l.asked) = 1
            /\ l.phase = "end" =>
                  res[t].items = PageItems(coll, l.offset, l.limit)

\* a partial listing with a checksum and a nonzero offset has returned its
\* page after one request
C9_Witness ==
    \E t \in Tasks :
        /\ op[t] = "list"
        /\ loc[t].phase = "end"
        /\ loc[t].limit # 0
        /\ loc[t].offset # 0
        /\ loc[t].given = MaxChecksum
        /\ Len(loc[t].asked) = 1
        /\ Len(res[t].items) > 0

\* C10: get_stream_details asks for the formats 27, 7, 6, 5 in this order,
\* each request signed and bypassing the cache, at most one request per
\* format; it stops at the first response with a non-empty url and builds the
\* stream details from it; it returns None when none of the four has one.
C10_FormatProbe ==
    \A t \in Tasks :
        op[t] = "stream" =>
            LET l == loc[t]
                order == <<27, 7, 6, 5>>
                urlIn(r) == r # None /\ r.url # ""
            IN
            /\ Len(l.asked) <= 4
            /\ \A i \in 1..Len(l.asked) :
                  /\ l.asked[i].ep = "track/getFileUrl"
                  /\ l.asked[i].par.fmt = order[i]
                  /\ l.asked[i].sign
                  /\ l.asked[i].ign
            /\ \A i \in 1..(Len(l.got) - 1) : ~urlIn(l.got[i])
            /\ Len(l.got) < Len(l.asked) => \A i \in 1..Len(l.got) : ~urlIn(l.got[i])
            /\ (l.phase = "end" /\ outcome[t] = "ret") =>
                  LET last == l.got[Len(l.got)] IN
                  IF urlIn(last)
                  THEN /\ res[t] # None
                       /\ res[t].path = last.url
                       /\ res[t].details = last
                       /\ last.format_id = order[Len(l.got)]
                  ELSE res[t] = None /\ Len(l.asked) = 4
            /\ cache = EmptyCache

\* the third format was the first to yield a url
C10_Witness ==
    \E t \in Tasks :
        /\ op[t] = "stream"
        /\ loc[t].phase = "end"
        /\ Len(loc[t].asked) = 3
        /\ res[t] # None
        /\ res[t].details.format_id = 6

\* C11: a streaming_started or streaming_ended notification for this
\* provider, handled with the session in place, dispatches its one POST and
\* raises nothing into the host.
C11_EventPosted == \A t \in Tasks : op[t] = "event" => exc[t] # "NameError:550"

\* the normalized entities with an identifier
Populated(e) ==
    /\ e.kind \in {"artist", "album", "track", "playlist"}
    /\ e.item_id # ""

\* C12: every element of a list an operation returns to the host (the four
\* search result lists, the library, album-track, playlist-track,
\* artist-album and artist-top-track listings) is a populated entity with a
\* non-empty identifier, never None.
C12_EntitiesHaveIds ==
    /\ output.kind = "list" =>
          \A i \in 1..Len(output.items) : Populated(output.items[i])
    /\ (output.kind = "searched" /\ output.result.kind = "search") =>
          /\ \A i \in 1..Len(output.result.artists) :
                Populated(output.result.artists[i])
          /\ \A i \in 1..Len(output.result.albums) :
                Populated(output.result.albums[i])
          /\ \A i \in 1..Len(output.result.tracks) :
                Populated(output.result.tracks[i])
          /\ \A i \in 1..Len(output.result.playlists) :
                Populated(output.result.playlists[i])

\* a record the normalizers are to reject: no id, not streamable, or not
\* displayable
Ineligible(obj) ==
    obj.id = "" \/ obj.streamable = "false" \/ obj.displayable = "false"

\* the eligible records of a list, in order
EligibleOnly(items) == SelectSeq(items, LAMBDA o : ~Ineligible(o))

\* C13: the album and track normalizers return None, and neither an object
\* nor a fault, for every record without id, or with streamable false, or
\* with displayable false; a listing that contains such records completes
\* and returns the normalized eligible records only.
C13_IneligibleRejected ==
    /\ (input.fn \in {"parse_album", "parse_track"} /\ output # NotRun
          /\ Ineligible(input.arg)) => output = None
    /\ (input.fn = "listing" /\ input.key = "albums" /\ output # NotRun) =>
          output = [kind |-> "list",
                    items |-> ParsedAlbums(EligibleOnly(input.items))]
    /\ (input.fn = "listing" /\ input.key = "tracks" /\ output # NotRun) =>
          output = [kind |-> "list",
                    items |-> ParsedTracks(EligibleOnly(input.items))]
    /\ (input.fn = "toptracks" /\ output # NotRun /\ input.searchresult # None) =>
          output = [kind |-> "list",
                    items |-> ParsedTracks(EligibleOnly(
                                 ByPerformer(input.id, input.searchresult.items)))]

\* C14: a search restricted to exactly one media type sends the matching
\* value as the type parameter and returns a mapping in which only that
\* type's list can be non-empty; a search with no or with several media types
\* sends no type parameter; the mapping always has exactly the four keys.
C14_SearchType ==
    output.kind = "searched" =>
        LET m == input.media_types
            expected == IF Len(m) # 1 THEN ""
                        ELSE IF m[1] = "Artist" THEN "artists"
                        ELSE IF m[1] = "Album" THEN "albums"
                        ELSE IF m[1] = "Track" THEN "tracks"
                        ELSE "playlists"
        IN
        /\ output.type = expected
        /\ output.result.kind = "search"
        /\ DOMAIN output.result =
              {"kind", "artists", "albums", "tracks", "playlists"}
        /\ Len(m) = 1 =>
              \A k \in {"artists", "albums", "tracks", "playlists"} \ {expected} :
                  output.result[k] = <<>>

\* a search restricted to albums has returned albums
C14_Witness ==
    /\ output.kind = "searched"
    /\ input.media_types = <<"Album">>
    /\ output.type = "albums"
    /\ Len(output.result.albums) > 0
    /\ output.result.tracks = <<>>

\* the artist object a record with an identifier resolves to
Resolved(artist_obj) ==
    [kind |-> "artist", item_id |-> artist_obj.id, name |-> artist_obj.name]

\* a performer or album artist the fallback is to use: present, with an
\* identifier, and not a "Various" collective
Usable(artist_obj) ==
    /\ Truthy(artist_obj)
    /\ artist_obj.id # ""
    /\ ~ContainsVarious(artist_obj.name)

\* one artist for each entry of the performers string whose role contains
\* "artist"
ArtistEntries(performers) ==
    LET es == SelectSeq(performers.entries,
                        LAMBDA e : e.sep /\ RoleIsArtist(e.role))
    IN [i \in 1..Len(es) |->
            [kind |-> "artist", item_id |-> es[i].name, name |-> es[i].name]]

\* the three-tier fallback
FallbackArtists(track_obj) ==
    IF Usable(track_obj.performer) THEN <<Resolved(track_obj.performer)>>
    ELSE IF Truthy(track_obj.album) /\ Usable(track_obj.album.artist)
    THEN <<Resolved(track_obj.album.artist)>>
    ELSE IF track_obj.performers = Absent THEN <<>>
    ELSE ArtistEntries(track_obj.performers)

\* C15: the artists of a normalized track are the record's performer unless
\* it is a "Various" collective, else the album's artist with the same
\* exclusion, else one artist for each performers entry whose role contains
\* "artist" and for no other entry; the list holds resolved artists only.
C15_ArtistFallback ==
    (input.fn = "parse_track" /\ output.kind = "track") =>
        /\ \A i \in 1..Len(output.artists) : output.artists[i].kind = "artist"
        /\ output.artists = FallbackArtists(input.arg)

\* C16: the signature of a signed request is the hash of the endpoint's
\* segments, then key and value of every parameter of the caller in
\* lexicographic key order, then the timestamp, then the secret, whatever
\* order the parameter mapping has; the caller's parameters go out as given,
\* and request_ts, request_sig, app_id and user_auth_token go out with the
\* signed requests only.
C16_Signature ==
    output.kind = "request" =>
        LET v(key) == input.params[CHOOSE i \in 1..3 : input.params[i][1] = key][2]
        IN
        /\ output.params.sent = input.params
        /\ IF input.sign_request
           THEN /\ DOMAIN output.params =
                      {"sent", "request_ts", "request_sig", "app_id",
                       "user_auth_token"}
                /\ output.params.request_ts = input.request_ts
                /\ output.params.request_sig =
                      [md5 |-> <<"track", "getFileUrl",
                                 "format_id", v("format_id"),
                                 "intent", v("intent"),
                                 "track_id", v("track_id"),
                                 input.request_ts, "app_secret_1">>]
           ELSE DOMAIN output.params = {"sent"}

\* a request whose parameter mapping is not in key order has been signed
C16_Witness ==
    /\ output.kind = "request"
    /\ input.sign_request
    /\ input.params[1][1] = "track_id"
    /\ input.params[3][1] = "format_id"
    /\ output.params.request_sig.md5[3] = "format_id"

\* C17: the quality tier is a total function of (maximum sampling rate,
\* maximum bit depth, format id), first match wins: rate > 192 the top
\* hi-res tier, else rate > 96 the second, else rate > 48 the third, else
\* bit depth > 16 the base hi-res tier, else format id 5 the lossy tier, else
\* standard lossless; 192, 96, 48 and 16 fall to the lower tier.
C17_QualityTier ==
    (input.fn = "parse_track" /\ output.kind = "track") =>
        LET r == input.arg.rate
            b == input.arg.depth
            f == input.arg.format_id
            q == output.quality
        IN
        /\ q \in {"FLAC_LOSSLESS_HI_RES_4", "FLAC_LOSSLESS_HI_RES_3",
                  "FLAC_LOSSLESS_HI_RES_2", "FLAC_LOSSLESS_HI_RES_1",
                  "LOSSY_AAC", "FLAC_LOSSLESS"}
        /\ q = "FLAC_LOSSLESS_HI_RES_4" <=> r > 192
        /\ q = "FLAC_LOSSLESS_HI_RES_3" <=> (r <= 192 /\ r > 96)
        /\ q = "FLAC_LOSSLESS_HI_RES_2" <=> (r <= 96 /\ r > 48)
        /\ q = "FLAC_LOSSLESS_HI_RES_1" <=> (r <= 48 /\ b > 16)
        /\ q = "LOSSY_AAC" <=> (r <= 48 /\ b <= 16 /\ f = 5)
        /\ q = "FLAC_LOSSLESS" <=> (r <= 48 /\ b <= 16 /\ f # 5)

\* a track at the boundary values 48 kHz and 16 bit in the AAC format has
\* been classified lossy
C17_Witness ==
    /\ input.fn = "parse_track"
    /\ output.kind = "track"
    /\ input.arg.rate = 48
    /\ input.arg.depth = 16
    /\ input.arg.format_id = 5
    /\ output.quality = "LOSSY_AAC"

\* C18: parsing an album record that passes the id/streamable/displayable
\* gate but has no artist, or an artist without identifier, ends in a
\* fault: it returns neither an album nor the None of a filtered record.
C18_ArtistlessAlbumFaults ==
    (/\ input.fn = "parse_album"
     /\ output # NotRun
     /\ input.arg.id # ""
     /\ input.arg.streamable = "true"
     /\ input.arg.displayable = "true"
     /\ \/ input.arg.artist \in {Absent, None}
        \/ input.arg.artist.id = "") => output.kind = "fault"

\* an eligible album whose artist has no identifier has ended in the
\* exception of line 346
C18_Witness ==
    /\ input.fn = "parse_album"
    /\ input.arg.artist \notin {Absent, None}
    /\ input.arg.artist.id = ""
    /\ output = [kind |-> "fault", exc |-> "Exception:346"]

\* C19 as stated: an album is a Compilation if its product type is
\* "compilation" or its artist name contains "Various", a Single if its
\* product type is "single", otherwise an Album, for every combination of
\* product type and artist name.
C19_CompilationFirst ==
    (input.fn = "parse_album" /\ output.kind = "album") =>
        output.albumtype =
            IF \/ input.arg.product_type = "compilation"
               \/ input.arg.artist.name \in {"Various", "Various Artists"}
            THEN "Compilation"
            ELSE IF input.arg.product_type = "single" THEN "Single"
            ELSE "Album"

\* C19 amended: an album is a Single if its product type is "single",
\* whatever its artist name; otherwise a Compilation if its product type is
\* "compilation" or its artist name contains "Various"; otherwise an Album.
C19_SingleFirst ==
    (input.fn = "parse_album" /\ output.kind = "album") =>
        output.albumtype =
            IF input.arg.product_type = "single" THEN "Single"
            ELSE IF \/ input.arg.product_type = "compilation"
                    \/ input.arg.artist.name \in {"Various", "Various Artists"}
            THEN "Compilation"
            ELSE "Album"

\* a single by "Various Artists" has been classified a single
C19_Witness ==
    /\ input.fn = "parse_album"
    /\ output.kind = "album"
    /\ input.arg.product_type = "single"
    /\ input.arg.artist.name = "Various Artists"
    /\ output.albumtype = "Single"

\* C20: concurrent first-time callers may each dispatch a login; each one
\* whose login succeeds goes on with the token of its own payload; every
\* login that completes stores its own payload over whatever is stored (the
\* last write wins); a caller never goes on with a token while no session
\* with that token is stored.
C20_LastWriteWins ==
    [][\A t \in Tasks :
        /\ (pc[t] = "login_wait" /\ pc'[t] # "login_wait") =>
              /\ session' \in {None}
                     \cup {[kind |-> "login", tok |-> n, user |-> u] :
                             n \in {0, t}, u \in BOOLEAN}
              /\ (session' # None /\ session'.user /\ session'.tok = t)
                    <=> pc'[t] = "gd_acq"
        /\ (pc[t] = "gd_auth" /\ pc'[t] = "gd_acq") =>
              /\ session' = session
              /\ session # None
              /\ session.tok # 0
      ]_vars

\* two callers raced through the login, both logins succeeded, and the
\* session holds the payload of the one that completed last
C20_Witness ==
    /\ raceSeen
    /\ loginsOK = 2
    /\ pc[1] = "gd_acq"
    /\ pc[2] = "gd_wait"
    /\ SessionStored(session)
    /\ session.tok = 1

\* a stored session that is the payload of a successful login
ValidSession(s) == IF s = None THEN FALSE ELSE s.user /\ HasToken(s)

\* C21: once the payload of a successful login is stored as the session, the
\* session stays a valid payload in every later state: no step resets it to
\* None or replaces it by a failed login's result.
C21_SessionPersists ==
    [][ValidSession(session) => ValidSession(session')]_vars

\* C22: a full listing called without a checksum first dispatches the probe
\* (limit 1, offset 0, never answered by the cache), takes the total the
\* probe reports as the checksum and passes it on every page request (pages
\* of 200 at offsets 0, 200, 400, ...); a page the cache answers was stored
\* under that total, so none stored under an older total is returned.
C22_FreshListing ==
    \A t \in Tasks :
      (op[t] = "list" /\ loc[t].given = NoChecksum /\ loc[t].limit = 0) =>
        LET l == loc[t] IN
        /\ Len(l.asked) >= 1
        /\ l.asked[1].par.limit = 1 /\ l.asked[1].par.offset = 0
        /\ l.asked[1].ign
        /\ (pc[t] = "gd_ret" /\ l.phase = "probe") => req[t].live
        /\ (pc[t] = "gd_cache" /\ l.phase = "full" /\ Len(l.asked) = 2) =>
              (res[t].kind = "page" /\ l.ck = res[t].total)
        /\ \A i \in 2..Len(l.asked) :
              /\ l.asked[i].ep = l.asked[1].ep
              /\ l.asked[i].par.limit = PageSize
              /\ l.asked[i].par.offset = (i - 2) * PageSize
              /\ l.asked[i].ck = l.ck
              /\ ~l.asked[i].ign
        /\ (pc[t] = "gd_ret" /\ l.phase = "full" /\ ~req[t].live) =>
              /\ CacheKey(req[t]) \in DOMAIN cache
              /\ cache[CacheKey(req[t])].ck = l.ck
              /\ res[t] = cache[CacheKey(req[t])].data

\* a listing started after the total changed requests a page live although
\* the cache holds that page under the old total
C22_Witness ==
    \E t \in Tasks :
      /\ op[t] = "list" /\ loc[t].given = NoChecksum /\ loc[t].limit = 0
      /\ loc[t].phase = "full" /\ pc[t] = "gd_wait"
      /\ srvVer > 0
      /\ loc[t].ck = Len(coll)
      /\ CacheKey(req[t]) \in DOMAIN cache
      /\ cache[CacheKey(req[t])].ck # req[t].ck

\* the operation of task t is a get_playlist_tracks call
TracksCall(t) ==
    /\ op[t] \in {"playlist_tracks", "list"}
    /\ Len(loc[t].asked) >= 1
    /\ loc[t].asked[1].ep = "playlist/get"

RequestedMembers(tracks, prov_track_ids) ==
    LET hits == SelectSeq(tracks, LAMBDA track :
                    \E i \in 1..Len(prov_track_ids) :
                        prov_track_ids[i].digits = track.id.digits)
    IN  [i \in 1..Len(hits) |-> hits[i].playlist_track_id.digits]

\* C24: remove_playlist_tracks dispatches one playlist/deleteTracks request
\* whose track_ids are exactly the playlist_track_id of every listed member
\* whose track id is among the requested track ids, and of no other member.
C24_DeleteMembers ==
    (input.fn = "remove_playlist_tracks" /\ output # NotRun) =>
        /\ output.kind = "get_data"
        /\ output.endpoint = "playlist/deleteTracks"
        /\ output.track_ids.parts =
               RequestedMembers(input.tracks, input.prov_track_ids)

\* the exceptions of a read of the session's identifiers that found no
\* session, or a session without the user record
SessionReadErrors ==
    {"TypeError:283", "KeyError:283", "TypeError:463", "KeyError:463"}

\* C25: whenever the playlist normalizer or the telemetry handler reads the
\* session's user, device or credential identifier, a login has succeeded
\* and its payload is stored: no such read finds the session missing.
C25_SessionBeforeRead ==
    \A t \in Tasks : exc[t] \notin SessionReadErrors

\* C26: a full listing terminates whatever the remote answers: it dispatches
\* finitely many requests and returns. A listing that is given at least one
\* item by every page short of the total ends within 1 + MaxItems requests,
\* the largest total being MaxItems; no listing goes on past MaxRequests.
C26_ListingTerminates ==
    \A t \in Tasks :
      (op[t] = "list" /\ loc[t].limit = 0) => Len(loc[t].asked) <= MaxRequests

====
